---- MODULE Spec2Model ----
(***************************************************************************)
(* BeamformingEvaluation (beam_eval/evaluation.py): the constructor, the   *)
(* four memoised properties s_target, e_interf, e_noise, e_artif and the   *)
(* static helper _projection, as a state machine of one instance.          *)
(*                                                                         *)
(* Python values are records [t, s, v]: t is the type ("None", "int",      *)
(* "Series"), s the scalar of an int, v the samples of a Series.  A        *)
(* one-column frame (Series.to_frame()) is kept as its column.  A matrix   *)
(* is [kind, rows]: kind is the Python type of the object the caller       *)
(* passed ("DataFrame" or "ndarray"), rows the sequence of its rows.       *)
(***************************************************************************)
EXTENDS Integers, Sequences, FiniteSets, TLC

\* Bounds of the model.
MaxLen == 2
MaxCalls == 2

\* The samples of the signals and the numbers of interference columns tried.
Values == {0, 1}
ColumnCounts == {0, 1}

Accessors == {"s_target", "e_interf", "e_noise", "e_artif"}
\* The properties the class docstring announces (lines 29-38).
Metrics == {"SNR", "SIR", "SDR", "SAR"}

VARIABLES
    estimated_source, real_source, interference_arg, noise_arg,
    status,
    max_len, input_signal, estimated, interference, noise,
    _s_target, _e_interf, _e_noise, _e_artif,
    projection_calls, last

args == <<estimated_source, real_source, interference_arg, noise_arg>>
fields == <<max_len, input_signal, estimated, interference, noise>>
memo == <<_s_target, _e_interf, _e_noise, _e_artif>>
vars == <<args, status, fields, memo, projection_calls, last>>

----------------------------------------------------------------------------
\* Python values

None == [t |-> "None", s |-> 0, v |-> <<>>]
PyInt(n) == [t |-> "int", s |-> n, v |-> <<>>]
Series(q) == [t |-> "Series", s |-> 0, v |-> q]

SeqsUpTo(S, n) == UNION {[1..k -> S] : k \in 0..n}
Matrices == UNION {[1..r -> [1..c -> Values]] : r \in 0..MaxLen, c \in ColumnCounts}

Min(a, b) == IF a < b THEN a ELSE b

\* x[:n] of a Series or of the rows of a 2-D array: the first n items, all of
\* them when there are fewer than n (a slice never raises).
Slice(q, n) == SubSeq(q, 1, Min(n, Len(q)))

\* "not x": None and 0 are falsy, a non-zero int is truthy, and the truth value
\* of a pandas Series is ambiguous (NDFrame.__bool__ raises ValueError).
Not(x) ==
    CASE x.t = "None" -> [exc |-> "none", b |-> TRUE]
      [] x.t = "int" -> [exc |-> "none", b |-> (x.s = 0)]
      [] OTHER -> [exc |-> "ValueError", b |-> FALSE]

\* a + b and a - b of ints and Series: an int broadcasts over a Series, two
\* Series combine sample by sample.
BinOp(op, a, b) ==
    LET f(x, y) == IF op = "+" THEN x + y ELSE x - y
    IN  CASE a.t = "int" /\ b.t = "int" -> PyInt(f(a.s, b.s))
          [] a.t = "Series" /\ b.t = "int" ->
                Series([i \in 1..Len(a.v) |-> f(a.v[i], b.s)])
          [] a.t = "int" /\ b.t = "Series" ->
                Series([i \in 1..Len(b.v) |-> f(a.s, b.v[i])])
          [] OTHER ->
                Series([i \in 1..Min(Len(a.v), Len(b.v)) |-> f(a.v[i], b.v[i])])

Add(a, b) == BinOp("+", a, b)
Sub(a, b) == BinOp("-", a, b)

\* A column of n rows, padded with NaN where it has no sample.
Pad(col, n) == [i \in 1..n |-> IF i <= Len(col) THEN col[i] ELSE "NaN"]

NCols(m) == IF m.rows = <<>> THEN 0 ELSE Len(m.rows[1])
Columns(m) == [c \in 1..NCols(m) |-> [r \in 1..Len(m.rows) |-> m.rows[r][c]]]

RECURSIVE MaxRows(_)
MaxRows(cols) ==
    IF cols = <<>> THEN 0
    ELSE LET n == MaxRows(Tail(cols))
         IN  IF Len(Head(cols)) > n THEN Len(Head(cols)) ELSE n

RECURSIVE Flatten(_)
Flatten(objs) ==
    IF objs = <<>> THEN <<>> ELSE Columns(Head(objs)) \o Flatten(Tail(objs))

\* pd.concat(objs, axis=1): only Series and DataFrame objects concatenate, any
\* other object raises TypeError; the columns are put side by side, the index
\* is the union of the indexes and missing samples are NaN.
concat(objs) ==
    IF \E i \in 1..Len(objs) : objs[i].kind # "DataFrame"
    THEN [exc |-> "TypeError", val |-> <<>>]
    ELSE LET cols == Flatten(objs)
             n == MaxRows(cols)
         IN  [exc |-> "none", val |-> [c \in 1..Len(cols) |-> Pad(cols[c], n)]]

\* A one-column frame, as a matrix.
Frame(col) == [kind |-> "DataFrame", rows |-> [r \in 1..Len(col) |-> <<col[r]>>]]

----------------------------------------------------------------------------
\* The instance

Self ==
    [max_len |-> max_len, input_signal |-> input_signal, estimated |-> estimated,
     interference |-> interference, noise |-> noise,
     _s_target |-> _s_target, _e_interf |-> _e_interf,
     _e_noise |-> _e_noise, _e_artif |-> _e_artif,
     calls |-> projection_calls]

Return(self, val) == [self |-> self, val |-> val, exc |-> "none"]
Raise(self, exc) == [self |-> self, val |-> None, exc |-> exc]

\* The stub: whatever the signal and the subspace, the result is the int 0.
_projection(signal, subspace) == PyInt(0)

Called(self, site) == [self EXCEPT !.calls[site] = @ + 1]

\* The one element of a set of one: { F(r) : r \in {e} } names the result e
\* of a nested read r in what follows it.
Only(S) == CHOOSE x \in S : TRUE

\* s_target with the projection stored in a second attribute as well.
s_target_get_wrong_attribute(self) ==
    LET n == Not(self._s_target)
        v == _projection(Series(self.estimated), Frame(self.input_signal))
        s1 == [Called(self, "s_target") EXCEPT !._s_target = v, !.estimated = v.v]
    IN  IF n.exc # "none" THEN Raise(self, n.exc)
        ELSE IF n.b THEN Return(s1, s1._s_target)
        ELSE Return(self, self._s_target)

\* s_target (lines 65-80).
s_target_get(self) ==
    LET n == Not(self._s_target)
        v == _projection(Series(self.estimated), Frame(self.input_signal))
        s1 == [Called(self, "s_target") EXCEPT !._s_target = v]
    IN  IF n.exc # "none" THEN Raise(self, n.exc)
        ELSE IF n.b THEN Return(s1, s1._s_target)
        ELSE Return(self, self._s_target)

\* e_interf (lines 82-98): pd.concat, then _projection, then self.s_target.
\* An exception of the nested read leaves through this one, and what the
\* nested read stored stays stored.
e_interf_get(self) ==
    LET n == Not(self._e_interf)
        all_inputs == concat(<<Frame(self.input_signal), self.interference>>)
        p == _projection(Frame(self.input_signal), all_inputs.val)
    IN  IF n.exc # "none" THEN Raise(self, n.exc)
        ELSE IF ~n.b THEN Return(self, self._e_interf)
        ELSE IF all_inputs.exc # "none" THEN Raise(self, all_inputs.exc)
        ELSE Only({
            IF r.exc # "none" THEN Raise(r.self, r.exc)
            ELSE LET s2 == [r.self EXCEPT !._e_interf = Sub(p, r.val)]
                 IN  Return(s2, s2._e_interf)
            : r \in {s_target_get(Called(self, "e_interf"))} })

\* e_noise (lines 100-118): pd.concat, then _projection, then self.e_interf,
\* then self.s_target.
e_noise_get(self) ==
    LET n == Not(self._e_noise)
        noised_inputs == concat(<<Frame(self.input_signal), self.interference,
                                  Frame(self.noise)>>)
        noise_projection == _projection(Frame(self.input_signal), noised_inputs.val)
    IN  IF n.exc # "none" THEN Raise(self, n.exc)
        ELSE IF ~n.b THEN Return(self, self._e_noise)
        ELSE IF noised_inputs.exc # "none" THEN Raise(self, noised_inputs.exc)
        ELSE Only({
            IF r1.exc # "none" THEN Raise(r1.self, r1.exc)
            ELSE Only({
                IF r2.exc # "none" THEN Raise(r2.self, r2.exc)
                ELSE LET s3 == [r2.self EXCEPT !._e_noise =
                                   Sub(noise_projection, Add(r1.val, r2.val))]
                     IN  Return(s3, s3._e_noise)
                : r2 \in {s_target_get(r1.self)} })
            : r1 \in {e_interf_get(Called(self, "e_noise"))} })

\* e_artif (lines 120-134): self.e_noise, self.e_interf, self.s_target in
\* that order, then the subtraction from self.estimated.
e_artif_get(self) ==
    LET n == Not(self._e_artif)
    IN  IF n.exc # "none" THEN Raise(self, n.exc)
        ELSE IF ~n.b THEN Return(self, self._e_artif)
        ELSE Only({
            IF r1.exc # "none" THEN Raise(r1.self, r1.exc)
            ELSE Only({
                IF r2.exc # "none" THEN Raise(r2.self, r2.exc)
                ELSE Only({
                    IF r3.exc # "none" THEN Raise(r3.self, r3.exc)
                    ELSE LET s4 == [r3.self EXCEPT !._e_artif =
                                       Sub(Series(self.estimated),
                                           Add(Add(r1.val, r2.val), r3.val))]
                         IN  Return(s4, s4._e_artif)
                    : r3 \in {s_target_get(r2.self)} })
                : r2 \in {e_interf_get(r1.self)} })
            : r1 \in {e_noise_get(self)} })

\* Attribute lookup on an instance: the class body (lines 25-155) defines the
\* four properties and nothing else a caller reads; any other name, the
\* announced SNR, SIR, SDR and SAR included, raises AttributeError.
getattr(self, name) ==
    CASE name = "s_target" -> s_target_get(self)
      [] name = "e_interf" -> e_interf_get(self)
      [] name = "e_noise" -> e_noise_get(self)
      [] name = "e_artif" -> e_artif_get(self)
      [] OTHER -> Raise(self, "AttributeError")

----------------------------------------------------------------------------
\* The constructor

\* What DataFrame.__getitem__ raises for the tuple key (slice, slice): the key
\* is looked up among the column labels; InvalidIndexError, or TypeError or
\* KeyError in other versions of pandas and Python.
TupleKeyErrors == {"InvalidIndexError", "TypeError", "KeyError"}

\* interference[:n, :] (line 62): the first n rows of a 2-D array; a DataFrame
\* takes the tuple for a column label and raises e.
GetItem2D(m, n, e) ==
    IF m.kind = "ndarray"
    THEN [exc |-> "none", val |-> [kind |-> m.kind, rows |-> Slice(m.rows, n)]]
    ELSE [exc |-> e, val |-> m]

\* noise[:n] (line 63): the first n samples of a Series; the default value of
\* the parameter is the class pd.Series itself, which is not subscriptable.
GetItemNoise(nz, n) ==
    IF nz.given
    THEN [exc |-> "none", val |-> Slice(nz.data, n)]
    ELSE [exc |-> "TypeError", val |-> <<>>]

\* __init__ (lines 41-63), e the exception a DataFrame raises at line 62.  An
\* exception leaves the caller without an instance.
__init__(est, real, interf, nz, e) ==
    IF GetItem2D(interf, Len(est), e).exc # "none"
    THEN Raise(Self, GetItem2D(interf, Len(est), e).exc)
    ELSE IF GetItemNoise(nz, Len(est)).exc # "none"
    THEN Raise(Self, GetItemNoise(nz, Len(est)).exc)
    ELSE Return([max_len |-> Len(est),
                 input_signal |-> Slice(real, Len(est)),
                 estimated |-> est,
                 interference |-> GetItem2D(interf, Len(est), e).val,
                 noise |-> GetItemNoise(nz, Len(est)).val,
                 _s_target |-> None, _e_interf |-> None,
                 _e_noise |-> None, _e_artif |-> None,
                 calls |-> projection_calls], None)

----------------------------------------------------------------------------
\* The state machine

Sites == {"s_target", "e_interf", "e_noise"}

Store(self) ==
    /\ max_len' = self.max_len
    /\ input_signal' = self.input_signal
    /\ estimated' = self.estimated
    /\ interference' = self.interference
    /\ noise' = self.noise
    /\ _s_target' = self._s_target
    /\ _e_interf' = self._e_interf
    /\ _e_noise' = self._e_noise
    /\ _e_artif' = self._e_artif
    /\ projection_calls' = self.calls

Init ==
    /\ estimated_source \in SeqsUpTo(Values, MaxLen)
    /\ real_source \in SeqsUpTo(Values, MaxLen)
    /\ interference_arg \in [kind : {"DataFrame", "ndarray"}, rows : Matrices]
    /\ noise_arg \in [given : {TRUE}, data : SeqsUpTo(Values, MaxLen)]
                       \cup {[given |-> FALSE, data |-> <<>>]}
    /\ status = "new"
    /\ max_len = 0
    /\ input_signal = <<>>
    /\ estimated = <<>>
    /\ interference = [kind |-> "none", rows |-> <<>>]
    /\ noise = <<>>
    /\ _s_target = None
    /\ _e_interf = None
    /\ _e_noise = None
    /\ _e_artif = None
    /\ projection_calls = [site \in Sites |-> 0]
    /\ last = [attr |-> "none", val |-> None, exc |-> "none"]

\* BeamformingEvaluation(estimated_source, real_source, interference, noise)
Construct ==
    /\ status = "new"
    /\ \E e \in TupleKeyErrors :
       \E r \in {__init__(estimated_source, real_source, interference_arg,
                          noise_arg, e)} :
          /\ status' = IF r.exc = "none" THEN "constructed" ELSE "raised"
          /\ last' = [attr |-> "__init__", val |-> None, exc |-> r.exc]
          /\ Store(r.self)
    /\ UNCHANGED args

\* instance.<name>, the caller going on after an exception
Read(name) ==
    /\ status = "constructed"
    /\ \A site \in Sites : projection_calls[site] < MaxCalls
    /\ \E r \in {getattr(Self, name)} :
          /\ Store(r.self)
          /\ last' = [attr |-> name, val |-> r.val, exc |-> r.exc]
    /\ UNCHANGED <<args, status>>

Next ==
    \/ Construct
    \/ \E name \in Accessors \cup Metrics : Read(name)

Spec == Init /\ [][Next]_vars

----------------------------------------------------------------------------
\* The claims

Constructed == status = "constructed"

\* x is the vector q (an int standing for the vector of that sample).
SameAs(x, q) ==
    \/ x.t = "Series" /\ x.v = q
    \/ x.t = "int" /\ \A i \in 1..Len(q) : q[i] = x.s

IsZero(x) ==
    \/ x.t = "int" /\ x.s = 0
    \/ x.t = "Series" /\ \A i \in 1..Len(x.v) : x.v[i] = 0

IsVector(x, n) == x.t = "Series" /\ Len(x.v) = n

\* An input shorter than the estimated signal.
ShorterInput ==
    \/ Len(real_source) < Len(estimated_source)
    \/ Len(interference_arg.rows) < Len(estimated_source)
    \/ noise_arg.given /\ Len(noise_arg.data) < Len(estimated_source)

\* C1: on a constructed instance every read of s_target, e_interf, e_noise
\* and e_artif returns a value, and once the four are there they add up to
\* the estimated signal.
DecompositionIdentity ==
    Constructed =>
        /\ last.attr \in Accessors => last.exc = "none"
        /\ (\A m \in {_s_target, _e_interf, _e_noise, _e_artif} : m.t # "None")
              => SameAs(Add(Add(Add(_s_target, _e_interf), _e_noise), _e_artif),
                        estimated)

\* C2: each derived quantity is computed once: no property calls _projection
\* a second time.
ComputedOnce == \A site \in Sites : projection_calls[site] <= 1

\* C3: a construction with an input shorter than the estimated signal ends
\* in DimensionError, with no instance.
DimensionMismatchRaises ==
    (status # "new" /\ ShorterInput)
        => (status = "raised" /\ last.exc = "DimensionError")

\* C4: when the estimated signal is the real source, s_target is the
\* estimated signal and e_interf, e_noise and e_artif are zero.
PerfectReconstruction ==
    (Constructed /\ estimated_source = real_source /\ last.attr \in Accessors)
        => /\ last.exc = "none"
           /\ last.attr = "s_target" => SameAs(last.val, estimated)
           /\ last.attr # "s_target" => IsZero(last.val)

\* C5: with an interference matrix of zero columns, e_interf is the zero
\* vector.
ZeroInterference ==
    (Constructed /\ NCols(interference_arg) = 0 /\ last.attr = "e_interf")
        => (last.exc = "none" /\ IsZero(last.val))

\* C6: with the noise left out there is an instance, and its e_noise is the
\* zero vector.
ZeroNoise ==
    (status # "new" /\ ~noise_arg.given)
        => /\ Constructed
           /\ last.attr = "e_noise" => (last.exc = "none" /\ IsZero(last.val))

\* C7: with every input at least max_len samples long, the stored signals are
\* their first max_len samples and every derived quantity is a vector of
\* max_len samples.
Truncation ==
    (Constructed /\ ~ShorterInput)
        => /\ input_signal = SubSeq(real_source, 1, max_len)
           /\ interference.rows = SubSeq(interference_arg.rows, 1, max_len)
           /\ noise = SubSeq(noise_arg.data, 1, max_len)
           /\ last.attr \in Accessors =>
                 (last.exc = "none" /\ IsVector(last.val, max_len))

\* C8: a construction with the estimated and the real source alone (the
\* interference and the noise at their defaults) succeeds.
OptionalInputs ==
    ( /\ status # "new"
      /\ interference_arg = [kind |-> "DataFrame", rows |-> <<>>]
      /\ ~noise_arg.given )
        => Constructed

\* C9: reading SDR, SIR, SNR or SAR gives a number, +infinity or
\* UndefinedMetricError, never a missing attribute.
ZeroDenominatorPolicy ==
    (Constructed /\ last.attr \in Metrics)
        => last.exc \in {"none", "UndefinedMetricError"}

\* C10: on a constructed instance no step changes max_len, input_signal,
\* estimated, interference or noise: a read changes the memo fields alone.
AccessorsKeepInputs == [][Constructed => UNCHANGED fields]_vars

\* A read of s_target has filled its memo on an instance with samples.
AccessorsKeepInputsWitness ==
    /\ Constructed
    /\ last.attr = "s_target"
    /\ _s_target.t # "None"
    /\ estimated # <<>>

====
